---- MODULE Spec2Model ----
(***************************************************************************)
(* Model of anki.py: the Anki-Connect client (_request), the HTML          *)
(* normaliser (_strip_html), the question formatter (_format_question)     *)
(* and the two tools start_learning and answer_and_get_next_card.          *)
(*                                                                         *)
(* Text is a sequence of lexemes.  A lexeme is one character (" ", "\n",   *)
(* "<", ">", "/", "&", ";") or an indivisible word of letters ("apple",    *)
(* "br", "p", "div", "dl", "lt", "gt", "amp"); the two class attributes    *)
(* class="audio" and class="footnote" are one lexeme each, and so are the  *)
(* two Chinese prompts of _format_question, written here in pinyin.        *)
(* The parser is html.parser as Python 3.11 ships it.                      *)
(***************************************************************************)
EXTENDS Integers, Sequences, FiniteSets, TLC

VARIABLES
    nstage, nx, ny, nz,     \* normaliser: stage, input, first and second output
    fstage, fmodel, ftemplate, fquestion, fout,     \* formatter: inputs, output
    pc,         \* where the running tool call stands ("idle" between calls)
    tool,       \* the tool being run
    ease,       \* the ease answer_and_get_next_card was called with
    calls,      \* the remote calls of this tool call, in the order issued
    sleeps,     \* how many times this tool call has slept
    card,       \* the local variable card of _get_current_card_info
    outcome     \* what the tool call returned or raised

normVars == <<nstage, nx, ny, nz>>
fmtVars == <<fstage, fmodel, ftemplate, fquestion, fout>>
toolVars == <<pc, tool, ease, calls, sleeps, card, outcome>>
vars == <<normVars, fmtVars, toolVars>>

(***************************************************************************)
(* Bounds.                                                                 *)
(***************************************************************************)
MaxTokens == 3      \* pieces of HTML in an input of the normaliser
MaxWords == 3       \* lexemes in a question text given to the formatter
MaxEase == 5        \* the eases tried are -1 .. MaxEase

(***************************************************************************)
(* Lexemes.                                                                *)
(***************************************************************************)
SP == " "
NL == "\n"
ClassAudio == "class=\"audio\""
ClassFootnote == "class=\"footnote\""

\* lexemes that consist of letters only
Words == {"apple", "br", "p", "div", "dl", "lt", "gt", "amp"}

\* Python's str.strip() and bs4's ASCII_SPACES, restricted to the lexemes
IsSpace(c) == c \in {SP, NL}

Range(s) == {s[k] : k \in 1..Len(s)}

MinOf(S) == CHOOSE k \in S : \A j \in S : k <= j

\* str.find(c, i): the first index >= i holding c, 0 when there is none
Find(s, c, i) ==
    LET K == {k \in i..Len(s) : s[k] = c}
    IN  IF K = {} THEN 0 ELSE MinOf(K)

(***************************************************************************)
(* html.parser, as BeautifulSoup(html_content, "html.parser") runs it      *)
(* (convert_charrefs off, feed() then close()).                            *)
(***************************************************************************)

\* the character an entity name stands for
EntityChar(name) ==
    CASE name = "lt" -> "<"
      [] name = "gt" -> ">"
      [] name = "amp" -> "&"
      [] OTHER -> "?"

KnownEntities == {"lt", "gt", "amp"}

\* A tag name runs to the first white space, "/" or ">".  A run of exactly one
\* word is that word; any longer run is a name no rule of _strip_html knows.
NameEnd(s, i) ==
    LET K == {k \in i..Len(s) : IsSpace(s[k]) \/ s[k] \in {"/", ">"}}
    IN  IF K = {} THEN Len(s) + 1 ELSE MinOf(K)

TagName(s, i) ==
    IF NameEnd(s, i) = i + 1 /\ s[i] \in Words THEN s[i] ELSE "?"

\* the class attribute of the tag whose body is s[i..j]
TagClass(s, i, j) ==
    IF \E k \in i..j : s[k] = ClassAudio THEN "audio"
    ELSE IF \E k \in i..j : s[k] = ClassFootnote THEN "footnote"
    ELSE ""

(***************************************************************************)
(* The tree builder and the rules of _strip_html, run over the parse in    *)
(* document order.  st.stack holds the open elements, the root first; an   *)
(* element is "removed" when _strip_html decomposes it.  st.cur is the     *)
(* text node being collected and st.out the text get_text() will return.   *)
(***************************************************************************)
EmptyTree == [stack |-> <<>>, cur |-> <<>>, out |-> <<>>]

VoidTags == {"br"}

\* anki.py decomposes div.audio and dl.footnote
Decomposed(name, class) ==
    \/ name = "div" /\ class = "audio"
    \/ name = "dl" /\ class = "footnote"

\* some element among the first n open ones is decomposed
InRemoved(stack, n) == \E k \in 1..n : stack[k].removed

\* bs4 endData: a text node of white space only becomes one "\n" or one " "
Collapse(d) ==
    IF \A k \in 1..Len(d) : IsSpace(d[k])
    THEN IF NL \in Range(d) THEN <<NL>> ELSE <<SP>>
    ELSE d

EndData(st) ==
    IF st.cur = <<>> THEN st
    ELSE [st EXCEPT !.cur = <<>>,
                    !.out = IF InRemoved(st.stack, Len(st.stack))
                            THEN @ ELSE @ \o Collapse(st.cur)]

HandleData(st, d) == [st EXCEPT !.cur = @ \o d]

RECURSIVE Newlines(_)
Newlines(n) == IF n = 0 THEN <<>> ELSE <<NL>> \o Newlines(n - 1)

\* Close the open elements from index j up.  Each closed <p> that is not inside
\* a decomposed element gets the "\n" that p.insert_after("\n") puts behind it.
PopFrom(st, j) ==
    LET f == EndData(st)
        ps == {k \in j..Len(f.stack) :
                  f.stack[k].name = "p" /\ ~InRemoved(f.stack, k)}
    IN  [f EXCEPT !.stack = SubSeq(@, 1, j - 1),
                  !.out = @ \o Newlines(Cardinality(ps))]

HandleEndTag(st, name) ==
    LET f == EndData(st)
        K == {k \in 1..Len(f.stack) : f.stack[k].name = name}
    IN  IF K = {} THEN f
        ELSE PopFrom(f, CHOOSE k \in K : \A j \in K : j <= k)

\* a <br> is closed at once and br.replace_with("\n") turns it into "\n"
HandleStartTag(st, name, class) ==
    LET f == EndData(st)
    IN  IF name \in VoidTags
        THEN IF InRemoved(f.stack, Len(f.stack)) THEN f
             ELSE [f EXCEPT !.out = @ \o <<NL>>]
        ELSE [f EXCEPT !.stack =
                 Append(@, [name |-> name, removed |-> Decomposed(name, class)])]

\* HTMLParser.goahead from lexeme i on, then the end of the document
RECURSIVE Parse(_, _, _)
Parse(s, i, st) ==
    IF i > Len(s) THEN PopFrom(st, 1)
    ELSE IF s[i] = "<" /\ i < Len(s) /\ s[i + 1] \in Words
    THEN \* a start tag: it runs to the next ">"
         LET gt == Find(s, ">", i + 1)
             lt == Find(s, "<", i + 1)
         IN  IF gt # 0
             THEN LET opened == HandleStartTag(st, TagName(s, i + 1),
                                               TagClass(s, i + 1, gt))
                  IN  IF s[gt - 1] = "/"
                      THEN Parse(s, gt + 1, HandleEndTag(opened, TagName(s, i + 1)))
                      ELSE Parse(s, gt + 1, opened)
             \* never closed: text up to the next "<", taken as it stands
             ELSE IF lt # 0
             THEN Parse(s, lt, HandleData(st, SubSeq(s, i, lt - 1)))
             ELSE Parse(s, i + 1, HandleData(st, <<"<">>))
    ELSE IF s[i] = "<" /\ i + 1 < Len(s) /\ s[i + 1] = "/" /\ s[i + 2] \in Words
    THEN \* an end tag
         LET gt == Find(s, ">", i + 1)
             lt == Find(s, "<", i + 1)
         IN  IF gt # 0
             THEN Parse(s, gt + 1, HandleEndTag(st, TagName(s, i + 2)))
             ELSE IF lt # 0
             THEN Parse(s, lt, HandleData(st, SubSeq(s, i, lt - 1)))
             ELSE Parse(s, i + 1, HandleData(st, <<"<">>))
    ELSE IF s[i] = "&" /\ i + 1 < Len(s) /\ s[i + 1] \in KnownEntities
                       /\ s[i + 2] = ";"
    THEN Parse(s, i + 3, HandleData(st, <<EntityChar(s[i + 1])>>))
    ELSE Parse(s, i + 1, HandleData(st, <<s[i]>>))

\* soup.get_text() after the four loops of _strip_html
GetText(html) == Parse(html, 1, EmptyTree).out

(***************************************************************************)
(* The line clean-up of _strip_html.                                       *)
(***************************************************************************)
\* text.split("\n")
RECURSIVE Split(_)
Split(text) ==
    LET k == Find(text, NL, 1)
    IN  IF k = 0 THEN <<text>>
        ELSE <<SubSeq(text, 1, k - 1)>> \o Split(SubSeq(text, k + 1, Len(text)))

\* line.strip()
RECURSIVE Strip(_)
Strip(line) ==
    IF line = <<>> THEN line
    ELSE IF IsSpace(Head(line)) THEN Strip(Tail(line))
    ELSE IF IsSpace(line[Len(line)]) THEN Strip(SubSeq(line, 1, Len(line) - 1))
    ELSE line

\* "\n".join(lines)
RECURSIVE Join(_)
Join(lines) ==
    IF lines = <<>> THEN <<>>
    ELSE IF Len(lines) = 1 THEN lines[1]
    ELSE lines[1] \o <<NL>> \o Join(Tail(lines))

\* mutant: the empty lines are dropped before the lines are trimmed
CleanLinesDropFirst(text) ==
    LET kept == SelectSeq(Split(text), LAMBDA l : l # <<>>)
    IN  Join([k \in 1..Len(kept) |-> Strip(kept[k])])

CleanLines(text) ==
    LET lines == [k \in 1..Len(Split(text)) |-> Strip(Split(text)[k])]
    IN  Join(SelectSeq(lines, LAMBDA l : l # <<>>))

StripHtml(html) ==
    IF html = <<>> THEN <<>> ELSE CleanLines(GetText(html))

(***************************************************************************)
(* Inputs of the normaliser: up to MaxTokens pieces of card HTML.          *)
(***************************************************************************)
HtmlTokens ==
    { <<"apple">>, <<"br">>, <<SP>>, <<NL>>,
      <<"<", "br", ">">>, <<"<", "p", ">">>, <<"<", "/", "p", ">">>,
      <<"<", "div", SP, ClassAudio, ">">>, <<"<", "/", "div", ">">>,
      <<"<", "dl", SP, ClassFootnote, ">">>,
      <<"&", "lt", ";">>, <<"&", "gt", ";">>, <<"&", "amp", ";">> }

RECURSIVE HtmlInputs(_)
HtmlInputs(n) ==
    IF n = 0 THEN {<<>>}
    ELSE HtmlInputs(n - 1)
         \cup {h \o t : h \in HtmlInputs(n - 1), t \in HtmlTokens}

(***************************************************************************)
(* _format_question.                                                       *)
(***************************************************************************)
VOCAB_MODELS == {"Vocabulary", "Phrase"}

\* the prompt appended on template "card2": a space, then the Chinese for
\* "what is it in English?"
Card2Suffix == <<SP, "de-yingwen-shi-shenme?">>

\* the prompt appended on template "card1": a space, then the Chinese for
\* "what does it mean?"
Card1Suffix == <<SP, "shi-shenme-yisi?">>

\* mutant: the template is looked at without the model
FormatQuestionAnyModel(model_name, template, question_text) ==
    IF template = "card2" THEN question_text \o Card2Suffix
    ELSE IF template = "card1" THEN question_text \o Card1Suffix
    ELSE question_text

FormatQuestion(model_name, template, question_text) ==
    IF model_name \in VOCAB_MODELS /\ template = "card2"
    THEN question_text \o Card2Suffix
    ELSE IF model_name \in VOCAB_MODELS /\ template = "card1"
    THEN question_text \o Card1Suffix
    ELSE question_text

(***************************************************************************)
(* Values the formatter and the tools are tried on.                        *)
(***************************************************************************)
ModelNames == {"Vocabulary", "Phrase", "Basic", ""}
Templates == {"card1", "card2", "card3", ""}

RECURSIVE Texts(_)
Texts(n) ==
    IF n = 0 THEN {<<>>}
    ELSE Texts(n - 1)
         \cup {t \o <<w>> : t \in Texts(n - 1), w \in {"apple", "br", SP}}

(***************************************************************************)
(* JSON values and HTTP responses.  A record of the model always has the   *)
(* same fields; "fields" and "keys" say which of them the JSON object      *)
(* really holds.                                                           *)
(***************************************************************************)
CardFields == {"cardId", "modelName", "template", "deckName", "question", "answer"}

NoCardObject ==
    [fields |-> {}, modelName |-> "", template |-> "", deckName |-> "",
     question |-> <<>>, answer |-> <<>>]

JsonNull == [type |-> "null", bool |-> FALSE, card |-> NoCardObject]
JsonBool(b) == [type |-> "bool", bool |-> b, card |-> NoCardObject]
JsonCard(c) == [type |-> "card", bool |-> FALSE, card |-> c]

NullError == "<null>"       \* JSON null under "error"
NoCurrentCard == "Gui review is not currently active."
OtherError == "cannot answer card"

\* urlopen raised URLError: there is no response
Unreachable ==
    [transport |-> "URLError", shape |-> "none", keys |-> {},
     error |-> NullError, result |-> JsonNull]

\* the body parsed to a JSON object with these keys
Envelope(keys, error, result) ==
    [transport |-> "ok", shape |-> "object", keys |-> keys,
     error |-> error, result |-> result]

\* the body parsed to JSON that is no object (a list)
ArrayPayload ==
    [transport |-> "ok", shape |-> "array", keys |-> {},
     error |-> NullError, result |-> JsonNull]

NoResponse ==
    [transport |-> "none", shape |-> "none", keys |-> {},
     error |-> NullError, result |-> JsonNull]

(***************************************************************************)
(* Exceptions and what a call gives back.                                  *)
(***************************************************************************)
Exception(type, text, payload) ==
    [type |-> type, text |-> text, payload |-> payload]

NoException == Exception("none", "", NoResponse)

Returned(value) == [raised |-> FALSE, value |-> value, exc |-> NoException]
Raised(exc) == [raised |-> TRUE, value |-> JsonNull, exc |-> exc]

UnreachableText == "Anki-Connect is not reachable - is Anki running?"
InvalidText == "Invalid response from Anki-Connect: %s"

(***************************************************************************)
(* AnkiClient._request, given the response the HTTP call met.              *)
(***************************************************************************)
Request(action, params, resp) ==
    IF resp.transport = "URLError"
    THEN Raised(Exception("AnkiConnectError", UnreachableText, NoResponse))
    \* response.keys() on a value that is no dict
    ELSE IF resp.shape # "object"
    THEN Raised(Exception("AttributeError", "keys", NoResponse))
    ELSE IF resp.keys # {"result", "error"}
    THEN Raised(Exception("AnkiConnectError", InvalidText, resp))
    ELSE IF resp.error # NullError
    THEN Raised(Exception("AnkiConnectError", resp.error, NoResponse))
    ELSE Returned(resp.result)

\* one entry of the log of remote calls
RemoteCall(action, params, resp) ==
    [action |-> action, params |-> params, resp |-> resp,
     out |-> Request(action, params, resp)]

NoParams == {}                          \* params or {}
EaseParams(e) == {<<"ease", e>>}        \* {"ease": ease}

(***************************************************************************)
(* Responses the external application is tried with, per action.           *)
(***************************************************************************)
Questions ==
    { <<"<", "p", ">", "apple", "<", "/", "p", ">">>,
      <<"apple", "<", "br", ">", "<", "div", SP, ClassAudio, ">", "br",
        "<", "/", "div", ">">> }

FullCard(m, t, q) ==
    [fields |-> CardFields, modelName |-> m, template |-> t,
     deckName |-> "Default", question |-> q,
     answer |-> <<"&", "lt", ";", "apple", SP, "<", "br", ">">>]

\* the card object without the fields in gone
Without(c, gone) ==
    [fields |-> c.fields \ gone,
     modelName |-> IF "modelName" \in gone THEN "" ELSE c.modelName,
     template |-> IF "template" \in gone THEN "" ELSE c.template,
     deckName |-> IF "deckName" \in gone THEN "" ELSE c.deckName,
     question |-> IF "question" \in gone THEN <<>> ELSE c.question,
     answer |-> IF "answer" \in gone THEN <<>> ELSE c.answer]

Cards ==
    {FullCard(m, t, q) : m \in {"Vocabulary", "Basic"},
                         t \in {"card1", "card2", "card3"}, q \in Questions}
    \cup {Without(FullCard("Phrase", "card1",
                           <<"<", "p", ">", "apple", "<", "/", "p", ">">>), gone) :
            gone \in SUBSET CardFields}

Results(action) ==
    IF action = "guiCurrentCard"
    THEN {JsonCard(c) : c \in Cards} \cup {JsonNull}
    ELSE {JsonBool(TRUE), JsonBool(FALSE)}

Responses(action) ==
    { Unreachable, ArrayPayload,
      Envelope({"result"}, NullError, JsonBool(TRUE)),
      Envelope({"result", "error", "extra"}, NullError, JsonBool(TRUE)),
      Envelope({"result", "error"}, NoCurrentCard, JsonNull),
      Envelope({"result", "error"}, OtherError, JsonNull) }
    \cup {Envelope({"result", "error"}, NullError, r) : r \in Results(action)}

Eases == -1 .. MaxEase

(***************************************************************************)
(* What a tool gives back: a dict (view.keys are its keys) or an           *)
(* exception.                                                              *)
(***************************************************************************)
NoView ==
    [keys |-> {}, success |-> FALSE, deck_finished |-> FALSE, model_name |-> "",
     template |-> "", deck_name |-> "", question |-> <<>>, answer |-> <<>>]

NoOutcome == [kind |-> "none", view |-> NoView, exc |-> NoException]
ToolReturns(view) == [kind |-> "return", view |-> view, exc |-> NoException]
ToolRaises(exc) == [kind |-> "raise", view |-> NoView, exc |-> exc]

(***************************************************************************)
(* _get_current_card_info.                                                 *)
(***************************************************************************)
\* mutant: deckName is read with card["deckName"]
CardProblemStrictDeck(value) ==
    IF value.type # "card"
    THEN Exception("AttributeError", "get", NoResponse)
    ELSE IF "modelName" \notin value.card.fields
    THEN Exception("KeyError", "modelName", NoResponse)
    ELSE IF "template" \notin value.card.fields
    THEN Exception("KeyError", "template", NoResponse)
    ELSE IF "deckName" \notin value.card.fields
    THEN Exception("KeyError", "deckName", NoResponse)
    ELSE NoException

\* card.get("cardId"), card["modelName"], card["template"]: the exception
\* reading the value guiCurrentCard returned raises, NoException when none
CardProblem(value) ==
    IF value.type # "card"
    THEN Exception("AttributeError", "get", NoResponse)
    ELSE IF "modelName" \notin value.card.fields
    THEN Exception("KeyError", "modelName", NoResponse)
    ELSE IF "template" \notin value.card.fields
    THEN Exception("KeyError", "template", NoResponse)
    ELSE NoException

\* card.get(field, "") for the text fields
CardGet(c, field) ==
    IF field \notin c.fields THEN <<>>
    ELSE IF field = "question" THEN c.question ELSE c.answer

\* the dict card_info
CardInfo(c) ==
    [keys |-> {"success", "model_name", "template", "deck_name", "question",
               "answer"},
     success |-> TRUE,
     deck_finished |-> FALSE,
     model_name |-> c.modelName,
     template |-> c.template,
     deck_name |-> IF "deckName" \in c.fields THEN c.deckName ELSE "",
     question |-> FormatQuestion(c.modelName, c.template,
                                 StripHtml(CardGet(c, "question"))),
     answer |-> StripHtml(CardGet(c, "answer"))]

(***************************************************************************)
(* start_learning and answer_and_get_next_card.                            *)
(***************************************************************************)
\* mutant: ease 0 .. 4 is let through
ValidEaseFromZero(e) == e \in 0 .. 4

ValidEase(e) == e \in {1, 2, 3, 4}

\* the dict returned by the except clause
DeckFinished ==
    [keys |-> {"success", "deck_finished", "model_name", "deck_name", "question",
               "answer"},
     success |-> TRUE,
     deck_finished |-> TRUE,
     model_name |-> "",
     template |-> "",
     deck_name |-> "",
     question |-> <<>>,
     answer |-> <<>>]

\* mutant: no except clause
InTryNowhere(t, step) == FALSE

\* mutant: the try also covers anki.gui_answer_card(ease)
InTryFromAnswer(t, step) == t = "answer_and_get_next_card"

\* mutant: the try sits in _get_current_card_info, which both tools run
InTryBothTools(t, step) == step \in {"current", "show"}

\* the statement at step runs inside the try of answer_and_get_next_card
InTry(t, step) ==
    t = "answer_and_get_next_card" /\ step \in {"current", "show"}

\* an exception raised at step: caught by "except AnkiConnectError" or passed on
Throw(t, step, exc) ==
    IF InTry(t, step) /\ exc.type = "AnkiConnectError"
    THEN ToolReturns(DeckFinished)
    ELSE ToolRaises(exc)

\* mutant: the next card is fetched again after its answer was shown
FollowingRefetch(step) ==
    CASE step = "answer" -> "sleep"
      [] step = "sleep" -> "current"
      [] step = "current" -> "show"
      [] step = "show" -> "current"

\* the statement after the one at step
Following(step) ==
    CASE step = "answer" -> "sleep"
      [] step = "sleep" -> "current"
      [] step = "current" -> "show"
      [] step = "show" -> "done"

ToolInit ==
    /\ pc = "idle"
    /\ tool = "none"
    /\ ease = 0
    /\ calls = <<>>
    /\ sleeps = 0
    /\ card = NoCardObject
    /\ outcome = NoOutcome

\* the host calls start_learning()
StartLearning ==
    /\ pc = "idle"
    /\ tool' = "start_learning"
    /\ pc' = "current"
    /\ UNCHANGED <<ease, calls, sleeps, card, outcome>>

\* the host calls answer_and_get_next_card(e)
AnswerAndGetNextCard ==
    /\ pc = "idle"
    /\ \E e \in Eases :
          /\ ease' = e
          /\ IF ValidEase(e)
             THEN /\ pc' = "answer"
                  /\ outcome' = outcome
             ELSE /\ pc' = "done"
                  /\ outcome' = ToolRaises(
                        Exception("ValueError", "ease must be 1-4", NoResponse))
    /\ tool' = "answer_and_get_next_card"
    /\ UNCHANGED <<calls, sleeps, card>>

\* anki.gui_answer_card(ease)
GuiAnswerCard ==
    /\ pc = "answer"
    /\ \E resp \in Responses("guiAnswerCard") :
          LET c == RemoteCall("guiAnswerCard", EaseParams(ease), resp)
          IN  /\ calls' = Append(calls, c)
              /\ IF c.out.raised
                 THEN /\ outcome' = Throw(tool, "answer", c.out.exc)
                      /\ pc' = "done"
                 ELSE /\ outcome' = outcome
                      /\ pc' = Following("answer")
    /\ UNCHANGED <<tool, ease, sleeps, card>>

\* time.sleep(1)
Sleep ==
    /\ pc = "sleep"
    /\ sleeps' = sleeps + 1
    /\ pc' = Following("sleep")
    /\ UNCHANGED <<tool, ease, calls, card, outcome>>

\* card = anki.gui_current_card() and the reads up to template = card["template"]
GuiCurrentCard ==
    /\ pc = "current"
    /\ \E resp \in Responses("guiCurrentCard") :
          LET c == RemoteCall("guiCurrentCard", NoParams, resp)
          IN  /\ calls' = Append(calls, c)
              /\ IF c.out.raised
                 THEN /\ outcome' = Throw(tool, "current", c.out.exc)
                      /\ pc' = "done"
                      /\ card' = card
                 ELSE IF CardProblem(c.out.value) # NoException
                 THEN /\ outcome' = Throw(tool, "current", CardProblem(c.out.value))
                      /\ pc' = "done"
                      /\ card' = card
                 ELSE /\ outcome' = outcome
                      /\ pc' = Following("current")
                      /\ card' = c.out.value.card
    /\ UNCHANGED <<tool, ease, sleeps>>

\* anki.gui_show_answer() and the rest of _get_current_card_info
GuiShowAnswer ==
    /\ pc = "show"
    /\ \E resp \in Responses("guiShowAnswer") :
          LET c == RemoteCall("guiShowAnswer", NoParams, resp)
          IN  /\ calls' = Append(calls, c)
              /\ IF c.out.raised
                 THEN /\ outcome' = Throw(tool, "show", c.out.exc)
                      /\ pc' = "done"
                 ELSE /\ outcome' = ToolReturns(CardInfo(card))
                      /\ pc' = Following("show")
    /\ UNCHANGED <<tool, ease, sleeps, card>>

\* the tool call is over; nothing of it is kept for the next one
Finish ==
    /\ pc = "done"
    /\ pc' = "idle"
    /\ tool' = "none"
    /\ ease' = 0
    /\ calls' = <<>>
    /\ sleeps' = 0
    /\ card' = NoCardObject
    /\ outcome' = NoOutcome

(***************************************************************************)
(* The formatter alone.                                                    *)
(***************************************************************************)
FormatStep ==
    /\ fstage = "input"
    /\ fout' = FormatQuestion(fmodel, ftemplate, fquestion)
    /\ fstage' = "done"
    /\ UNCHANGED <<fmodel, ftemplate, fquestion>>

(***************************************************************************)
(* The normaliser alone: normalize(x), then normalize of its own output.   *)
(***************************************************************************)
Normalize ==
    /\ nstage = "input"
    /\ ny' = StripHtml(nx)
    /\ nstage' = "once"
    /\ UNCHANGED <<nx, nz>>

NormalizeAgain ==
    /\ nstage = "once"
    /\ nz' = StripHtml(ny)
    /\ nstage' = "twice"
    /\ UNCHANGED <<nx, ny>>

(***************************************************************************)
(* Specifications.                                                         *)
(***************************************************************************)
NormIdle == nstage = "idle" /\ nx = <<>> /\ ny = <<>> /\ nz = <<>>

FmtIdle ==
    /\ fstage = "idle"
    /\ fmodel = ""
    /\ ftemplate = ""
    /\ fquestion = <<>>
    /\ fout = <<>>

\* the tools, served one call after the other
Init == ToolInit /\ NormIdle /\ FmtIdle

Next ==
    \/ StartLearning /\ UNCHANGED <<normVars, fmtVars>>
    \/ AnswerAndGetNextCard /\ UNCHANGED <<normVars, fmtVars>>
    \/ GuiAnswerCard /\ UNCHANGED <<normVars, fmtVars>>
    \/ Sleep /\ UNCHANGED <<normVars, fmtVars>>
    \/ GuiCurrentCard /\ UNCHANGED <<normVars, fmtVars>>
    \/ GuiShowAnswer /\ UNCHANGED <<normVars, fmtVars>>
    \/ Finish /\ UNCHANGED <<normVars, fmtVars>>

Spec == Init /\ [][Next]_vars

\* _strip_html on every input of up to MaxTokens pieces
NormInit ==
    /\ nstage = "input"
    /\ nx \in HtmlInputs(MaxTokens)
    /\ ny = <<>>
    /\ nz = <<>>
    /\ ToolInit
    /\ FmtIdle

NormNext ==
    \/ Normalize /\ UNCHANGED <<fmtVars, toolVars>>
    \/ NormalizeAgain /\ UNCHANGED <<fmtVars, toolVars>>

NormSpec == NormInit /\ [][NormNext]_vars

\* _format_question on every model, template and text of up to MaxWords lexemes
FmtInit ==
    /\ fstage = "input"
    /\ fmodel \in ModelNames
    /\ ftemplate \in Templates
    /\ fquestion \in Texts(MaxWords)
    /\ fout = <<>>
    /\ ToolInit
    /\ NormIdle

FmtNext == FormatStep /\ UNCHANGED <<normVars, toolVars>>

FmtSpec == FmtInit /\ [][FmtNext]_vars

(***************************************************************************)
(* Properties.                                                             *)
(***************************************************************************)
Answering == tool = "answer_and_get_next_card"
Starting == tool = "start_learning"

LastCall == calls[Len(calls)]

\* the response is the well-formed envelope that reports "no current card"
SaysNoCurrentCard(resp) ==
    /\ resp.transport = "ok"
    /\ resp.shape = "object"
    /\ resp.keys = {"result", "error"}
    /\ resp.error = NoCurrentCard

IsDeckFinished(o) ==
    o.kind = "return" /\ o.view.success /\ o.view.deck_finished

\* C1: answer_and_get_next_card with an ease outside {1,2,3,4} ends at once
\* with the validation error (ValueError), having sent no remote call and
\* slept not at all.
C1_InvalidEaseRejected ==
    (Answering /\ ease \notin {1, 2, 3, 4}) =>
        /\ pc = "done"
        /\ outcome.kind = "raise"
        /\ outcome.exc.type = "ValueError"
        /\ calls = <<>>
        /\ sleeps = 0

C1_Witness ==
    /\ Answering
    /\ ease = 5
    /\ pc = "done"
    /\ outcome.kind = "raise"
    /\ calls = <<>>

\* C2: when the rating was submitted and the fetch of the current card that
\* follows meets the application's "no current card" error, the call returns
\* success=true, deck_finished=true and empty model_name, deck_name, question
\* and answer.
C2_NoCardIsDeckFinished ==
    (/\ Answering
     /\ Len(calls) = 2
     /\ ~calls[1].out.raised
     /\ calls[2].action = "guiCurrentCard"
     /\ SaysNoCurrentCard(calls[2].resp)) =>
        /\ pc = "done"
        /\ outcome.kind = "return"
        /\ outcome.view.success
        /\ outcome.view.deck_finished
        /\ {"success", "deck_finished"} \subseteq outcome.view.keys
        /\ outcome.view.model_name = ""
        /\ outcome.view.deck_name = ""
        /\ outcome.view.question = <<>>
        /\ outcome.view.answer = <<>>

C2_Witness ==
    /\ Answering
    /\ ease = 3
    /\ Len(calls) = 2
    /\ calls[1].action = "guiAnswerCard"
    /\ ~calls[1].out.raised
    /\ SaysNoCurrentCard(calls[2].resp)
    /\ IsDeckFinished(outcome)

\* C3: a tool call returns the deck-finished record only when its last remote
\* call was the fetch of the current card and that fetch met the
\* application's "no current card" error; every other failure is raised.
C3_OnlyNoCardIsDeckFinished ==
    IsDeckFinished(outcome) =>
        /\ calls # <<>>
        /\ LastCall.action = "guiCurrentCard"
        /\ SaysNoCurrentCard(LastCall.resp)

\* C4: start_learning never returns the deck-finished record, and when a
\* remote call of it fails, start_learning ends raising that very exception.
C4_StartLearningPropagates ==
    Starting =>
        /\ ~outcome.view.deck_finished
        /\ (calls # <<>> /\ LastCall.out.raised) =>
              /\ pc = "done"
              /\ outcome.kind = "raise"
              /\ outcome.exc = LastCall.out.exc

C4_Witness ==
    /\ Starting
    /\ Len(calls) = 1
    /\ calls[1].resp = Unreachable
    /\ outcome.kind = "raise"
    /\ outcome.exc.type = "AnkiConnectError"
    /\ outcome.exc.text = UnreachableText

\* C5: for every parsed response, _request returns the value under result when
\* the payload is an object with exactly the keys result and error and a null
\* error; for every other payload it raises AnkiConnectError, carrying the
\* payload for a wrong shape and the error's string for a non-null error.
C5_RequestEnvelope ==
    \A k \in 1..Len(calls) :
        LET r == calls[k].resp
            o == calls[k].out
        IN  r.transport = "ok" =>
              IF r.shape = "object" /\ r.keys = {"result", "error"}
                 /\ r.error = NullError
              THEN o = Returned(r.result)
              ELSE /\ o.raised
                   /\ o.exc.type = "AnkiConnectError"
                   /\ IF r.shape = "object" /\ r.keys = {"result", "error"}
                      THEN o.exc.text = r.error
                      ELSE o.exc.payload = r

\* C6: format appends the "in English?" prompt for a vocabulary model on
\* "card2", the "meaning?" prompt for a vocabulary model on "card1", and
\* gives the text back unchanged for every other model and template.
C6_FormatTable ==
    fstage = "done" =>
        IF fmodel \in {"Vocabulary", "Phrase"} /\ ftemplate = "card2"
        THEN fout = fquestion \o <<" ", "de-yingwen-shi-shenme?">>
        ELSE IF fmodel \in {"Vocabulary", "Phrase"} /\ ftemplate = "card1"
        THEN fout = fquestion \o <<" ", "shi-shenme-yisi?">>
        ELSE fout = fquestion

C6_Witness ==
    /\ fstage = "done"
    /\ fmodel = "Basic"
    /\ ftemplate = "card1"
    /\ fquestion = <<"apple">>
    /\ fout = <<"apple">>

HasMarkup(text) == "<" \in Range(text) \/ "&" \in Range(text)

\* C7 as stated: normalize(normalize(x)) = normalize(x) for every input x.
C7_Idempotent ==
    nstage = "twice" => nz = ny

\* C7 amended: normalize(normalize(x)) = normalize(x) whenever normalize(x)
\* holds neither "<" nor "&".
C7_IdempotentOnPlainText ==
    (nstage = "twice" /\ ~HasMarkup(ny)) => nz = ny

C7_Witness ==
    /\ nstage = "twice"
    /\ nx = <<"apple", "&", "gt", ";", SP>>
    /\ ny = <<"apple", ">">>
    /\ nz = ny

\* C8 as stated: a tool call issues at most two remote calls and sleeps at
\* most once.
C8_AtMostTwoCalls ==
    Len(calls) <= 2 /\ sleeps <= 1

\* C8 amended: start_learning issues at most two remote calls and never
\* sleeps; answer_and_get_next_card issues at most three remote calls and
\* sleeps at most once.
C8_CallBudget ==
    /\ Starting => (Len(calls) <= 2 /\ sleeps = 0)
    /\ Answering => (Len(calls) <= 3 /\ sleeps <= 1)

C8_Witness ==
    /\ Answering
    /\ pc = "done"
    /\ Len(calls) = 3
    /\ sleeps = 1
    /\ outcome.kind = "return"

TextFields == {"modelName", "template", "deckName", "question", "answer"}

\* the last remote call fetched a card object that lacks some of these fields
FetchedWithout(missing) ==
    /\ calls # <<>>
    /\ LastCall.action = "guiCurrentCard"
    /\ ~LastCall.out.raised
    /\ LastCall.out.value.type = "card"
    /\ missing \cap LastCall.out.value.card.fields = {}
    /\ missing # {}

\* C9 as stated: a card object that lacks any of modelName, template,
\* deckName, question, answer does not make the call fail; the answer is
\* still revealed.
C9_MissingFieldTolerated ==
    \A f \in TextFields :
        FetchedWithout({f}) => (pc = "show" /\ outcome.kind = "none")

\* C9 amended: a card object that has modelName and template but lacks
\* deckName, question or answer does not make the call fail: guiShowAnswer is
\* sent, and when it succeeds the view has success=true, deck_name "" for a
\* missing deckName, answer "" for a missing answer and the formatting of the
\* empty text as question for a missing question.  A card object that lacks
\* modelName or template makes the call raise KeyError before guiShowAnswer
\* is sent.
C9_MissingFieldRule ==
    /\ \A f \in {"modelName", "template"} :
          FetchedWithout({f}) =>
              /\ pc = "done"
              /\ outcome.kind = "raise"
              /\ outcome.exc.type = "KeyError"
    /\ (/\ calls # <<>>
        /\ LastCall.action = "guiCurrentCard"
        /\ ~LastCall.out.raised
        /\ LastCall.out.value.type = "card"
        /\ {"modelName", "template"} \subseteq LastCall.out.value.card.fields)
       => (pc = "show" /\ outcome.kind = "none")
    /\ (/\ pc = "done"
        /\ calls # <<>>
        /\ LastCall.action = "guiShowAnswer"
        /\ ~LastCall.out.raised)
       => /\ outcome.kind = "return"
          /\ outcome.view.success
          /\ ~outcome.view.deck_finished
          /\ "deckName" \notin card.fields => outcome.view.deck_name = ""
          /\ "answer" \notin card.fields => outcome.view.answer = <<>>
          /\ "question" \notin card.fields =>
                outcome.view.question
                    = FormatQuestion(card.modelName, card.template, <<>>)

C9_Witness ==
    /\ pc = "done"
    /\ Len(calls) = 2
    /\ LastCall.action = "guiShowAnswer"
    /\ card.fields = {"modelName", "template"}
    /\ outcome.kind = "return"
    /\ outcome.view.success
    /\ outcome.view.deck_name = ""
    /\ outcome.view.answer = <<>>
    /\ outcome.view.question = <<" ", "shi-shenme-yisi?">>

ExpectedCalls ==
    IF Answering
    THEN <<"guiAnswerCard", "guiCurrentCard", "guiShowAnswer">>
    ELSE <<"guiCurrentCard", "guiShowAnswer">>

\* C10: the remote calls of a tool call are guiAnswerCard (only in
\* answer_and_get_next_card, once, with the caller's ease), guiCurrentCard,
\* guiShowAnswer, in that order, each sent only after the one before it
\* returned; a failed guiAnswerCard is raised to the caller with no further
\* call and no deck-finished record.
C10_CallOrder ==
    /\ Len(calls) <= Len(ExpectedCalls)
    /\ \A k \in 1..Len(calls) :
          /\ calls[k].action = ExpectedCalls[k]
          /\ k < Len(calls) => ~calls[k].out.raised
          /\ calls[k].action = "guiAnswerCard" =>
                calls[k].params = {<<"ease", ease>>}
    /\ (Answering /\ ease \in {1, 2, 3, 4} /\ pc \notin {"answer"}) =>
          (calls # <<>> /\ calls[1].action = "guiAnswerCard")
    /\ (calls # <<>> /\ calls[1].action = "guiAnswerCard" /\ calls[1].out.raised) =>
          /\ Len(calls) = 1
          /\ pc = "done"
          /\ outcome.kind = "raise"
          /\ outcome.exc = calls[1].out.exc

C10_Witness ==
    /\ Answering
    /\ ease = 2
    /\ Len(calls) = 1
    /\ calls[1].out.raised
    /\ calls[1].out.exc.text = OtherError
    /\ outcome.kind = "raise"

====
